---- MODULE Spec2Model ----
(***************************************************************************)
(* Model of src/token_manager.py: class TokenManager, a single-slot cache  *)
(* of OAuth2 tokens kept in a SQLite table and refreshed against the       *)
(* provider's token endpoint.                                              *)
(*                                                                         *)
(* The committed content of table `tokens` is the variable db (a sequence  *)
(* of rows in rowid order).  A caller is a thread or process that invokes  *)
(* one public method of a TokenManager at a time; its position is pc[c]    *)
(* and the locals of the running method are frame[c].  The wall clock is   *)
(* counted in ticks, Res ticks to the second, so that time.time() (a       *)
(* float) and int(time.time()) (its truncation) differ.                    *)
(*                                                                         *)
(* An optional value (Python's None) is a sequence of length 0 or 1.       *)
(***************************************************************************)
EXTENDS Integers, Sequences, FiniteSets, TLC

\* ------------------------------------------------------------------ bounds
\* clock ticks per second (resolution of time.time() in the model)
Res == 2
\* the clock stops advancing at MaxClock ticks
MaxClock == 4
\* the provider issues at most MaxIssue token pairs
MaxIssue == 3
\* the provider's expires_in ranges over Buffer .. Buffer + MaxExtra seconds
MaxExtra == 2

\* ------------------------------------------------------- program constants
\* the 5 minute buffer of get_valid_access_token
Buffer == 300
\* the one status refresh_access_token accepts
HttpOk == 200

Callers == {"p1", "p2"}
\* under serial access the callers take turns and every call starts from a
\* fresh frame, so one caller stands for them all
SerialCallers == {"p1"}

None == << >>
Some(x) == << x >>

RT(k) == << "rt", k >>
AT(k) == << "at", k >>

\* the value of BLUEBEAM_REFRESH_TOKEN when it is set
BootstrapToken == RT(0)

ExpiresIn == Buffer .. (Buffer + MaxExtra)
RefreshTokens == { RT(k) : k \in 0 .. MaxIssue }
AccessTokens == { AT(k) : k \in 1 .. MaxIssue }
\* an access token obtained elsewhere, which a caller of save_tokens passes
ForeignAccessToken == AT(0)

Fields == << "access_token", "refresh_token", "expires_in" >>
FieldSet == { Fields[i] : i \in 1 .. Len(Fields) }

VARIABLES clock, env, db, lock, live, consumed, issued, pc, frame

vars == << clock, env, db, lock, live, consumed, issued, pc, frame >>

\* ----------------------------------------------------------------- values
NoArgs == [access_token |-> None, refresh_token |-> None, expires_in |-> -1]
NoResp == [status |-> 0, body |-> [f \in {} |-> None]]
NoResult == [kind |-> "none", cls |-> "", msg |-> "", value |-> None]

Return(v) == [kind |-> "return", cls |-> "", msg |-> "", value |-> v]
Raise(cls, msg) == [kind |-> "raise", cls |-> cls, msg |-> msg, value |-> None]

\* the missing configuration answered with None instead of an exception
NoTokensReturnNone == Return(None)

\* raise Exception("No tokens in database and no BLUEBEAM_REFRESH_TOKEN ...")
NoTokensError == Raise("Exception", "No tokens in database and no BLUEBEAM_REFRESH_TOKEN in environment")
\* raise Exception(f"Failed to refresh token: {response.text}")
RefreshFailedError == Raise("Exception", "Failed to refresh token")
\* the failure of the transport caught and answered with None
TransportSwallowed == Return(None)

\* requests.post raised (DNS, TLS, connection reset)
TransportError == Raise("requests.RequestException", "transport")
\* new_tokens[field] on a body without the field
KeyError(field) == Raise("KeyError", field)
\* sqlite3 raised inside save_tokens
SqliteError == Raise("sqlite3.Error", "save")

Frame0 ==
    [op |-> "none", args |-> NoArgs, pre |-> << >>, tokens |-> None,
     now |-> -1, sent |-> None, calls |-> 0, resp |-> NoResp,
     expires_at |-> -1, tsave |-> -1, txn |-> << >>, result |-> NoResult]

\* ------------------------------------------------------------ the database
\* the time rounded up instead of truncated
IntTimeCeil(t) == (t + Res - 1) \div Res

\* int(time.time())
IntTime(t) == t \div Res

\* the old rows left in place
DeleteNothing(rows) == rows

\* DELETE FROM tokens
DeleteAll(rows) == << >>

\* the rowid SQLite gives an INTEGER PRIMARY KEY left out of the INSERT
NextId(rows) ==
    IF rows = << >> THEN 1
    ELSE 1 + (CHOOSE m \in { rows[i].id : i \in 1 .. Len(rows) } :
                 \A i \in 1 .. Len(rows) : rows[i].id <= m)

\* the first two values bound to each other's column
InsertRowSwapped(rows, v1, v2, v3) ==
    Append(rows, [id |-> NextId(rows), refresh_token |-> v2,
                  access_token |-> v1, expires_at |-> v3])

\* INSERT INTO tokens (refresh_token, access_token, expires_at) VALUES (?, ?, ?)
\* bound to the tuple (v1, v2, v3)
InsertRow(rows, v1, v2, v3) ==
    Append(rows, [id |-> NextId(rows), refresh_token |-> v1,
                  access_token |-> v2, expires_at |-> v3])

\* every statement committed as it is executed
Autocommit(committed, working) == working

\* What the other connections read while a connection has statements
\* executed and not committed: the committed table, not the working copy.
Isolation(committed, working) == committed

\* the dict built with the first two columns of the row taken for each other
GetTokensMisindexed(rows) ==
    IF rows = << >> THEN None
    ELSE LET result == << rows[1].access_token, rows[1].refresh_token,
                          rows[1].expires_at >>
         IN  Some([access_token |-> result[2], refresh_token |-> result[1],
                   expires_at |-> result[3]])

\* SELECT access_token, refresh_token, expires_at FROM tokens LIMIT 1, and
\* the dict built of the row fetched (None without a row)
GetTokens(rows) ==
    IF rows = << >> THEN None
    ELSE LET result == << rows[1].access_token, rows[1].refresh_token,
                          rows[1].expires_at >>
         IN  Some([access_token |-> result[1], refresh_token |-> result[2],
                   expires_at |-> result[3]])

\* the table dropped and created anew at every start
DropAndCreate(rows) == << >>

\* CREATE TABLE IF NOT EXISTS tokens (...): an existing table keeps its rows
CreateTableIfNotExists(rows) == rows

\* the comparison turned round
IsStillValidInverted(expires_at, t) == expires_at * Res < t + Buffer * Res

\* the boundary taken as still valid
IsStillValidAtBoundary(expires_at, t) == expires_at * Res >= t + Buffer * Res

\* tokens['expires_at'] > time.time() + 300, t in ticks
IsStillValid(expires_at, t) == expires_at * Res > t + Buffer * Res

\* only the server errors taken as failures
StatusOkBelow500(status) == status < 500

\* response.status_code == 200
StatusOk(status) == status = HttpOk

\* the first key of Fields the body lacks (the KeyError raised), or None
FirstMissing(body) ==
    IF \A i \in 1 .. Len(Fields) : Fields[i] \in DOMAIN body THEN None
    ELSE LET i == CHOOSE j \in 1 .. Len(Fields) :
                     /\ Fields[j] \notin DOMAIN body
                     /\ \A k \in 1 .. (j - 1) : Fields[k] \in DOMAIN body
         IN  Some(Fields[i])

\* ------------------------------------------------------------ the provider
\* The token endpoint as requests.post sees it.  A refresh token is live
\* until an exchange accepts it; an accepted exchange issues the next pair.
FullBody(n, e) ==
    [access_token |-> AT(n), refresh_token |-> RT(n), expires_in |-> e]

Restrict(b, S) == [f \in S |-> b[f]]

\* the JSON bodies of a 200 answer: all three fields, or one of them missing
OkBodies(n) ==
    { Restrict(FullBody(n, e), S) :
        e \in ExpiresIn, S \in { FieldSet } \cup { FieldSet \ {f} : f \in FieldSet } }

\* (the provider is not part of the program: its rotation rule is the one
\* the design states, a refresh token is spent by the exchange that accepts it)
CanAccept(rt) == rt \in live /\ issued < MaxIssue

\* the outcomes of one POST of refresh token rt: what the caller gets
\* (status -1: requests.post raised) and whether the provider accepted
Exchanges(rt) ==
    { [status |-> 400, body |-> NoResp.body, accepted |-> FALSE],
      [status |-> -1, body |-> NoResp.body, accepted |-> FALSE] }
    \cup (IF CanAccept(rt)
          THEN { [status |-> -1, body |-> NoResp.body, accepted |-> TRUE] }
               \cup { [status |-> HttpOk, body |-> b, accepted |-> TRUE] :
                        b \in OkBodies(issued + 1) }
          ELSE {})

Init ==
    /\ clock = 0
    /\ env \in { None, Some(BootstrapToken) }
    /\ db = << >>
    /\ lock = "free"
    /\ live = { BootstrapToken }
    /\ consumed = {}
    /\ issued = 0
    /\ pc = [c \in Callers |-> "idle"]
    /\ frame = [c \in Callers |-> Frame0]


\* ------------------------------------------------------------- operations
Set(c, f) == frame' = [frame EXCEPT ![c] = f]
Goto(c, l) == pc' = [pc EXCEPT ![c] = l]
Provider == << live, consumed, issued >>

\* no method is running: the callers take turns (serial access)
Quiet == \A d \in Callers : pc[d] = "idle"

\* a caller invokes get_valid_access_token()
CallGetValid(c) ==
    /\ pc[c] = "idle"
    /\ Set(c, [Frame0 EXCEPT !.op = "get_valid", !.pre = db])
    /\ Goto(c, "gv_load")
    /\ UNCHANGED << clock, env, db, lock, Provider >>

\* a caller invokes save_tokens(access_token, refresh_token, expires_in)
CallSave(c) ==
    /\ pc[c] = "idle"
    /\ \E a \in { ForeignAccessToken }, r \in RefreshTokens, e \in ExpiresIn :
          Set(c, [Frame0 EXCEPT !.op = "save", !.pre = db,
                     !.args = [access_token |-> a, refresh_token |-> r,
                               expires_in |-> e]])
    /\ Goto(c, "save_time")
    /\ UNCHANGED << clock, env, db, lock, Provider >>

\* a caller invokes get_tokens()
CallLoad(c) ==
    /\ pc[c] = "idle"
    /\ Set(c, [Frame0 EXCEPT !.op = "load", !.pre = db])
    /\ Goto(c, "load")
    /\ UNCHANGED << clock, env, db, lock, Provider >>

\* a caller constructs a TokenManager on the same database: _init_db()
InitDb(c) ==
    /\ pc[c] = "idle"
    /\ db' = CreateTableIfNotExists(db)
    /\ Set(c, [Frame0 EXCEPT !.op = "init", !.pre = db, !.result = Return(None)])
    /\ Goto(c, "done")
    /\ UNCHANGED << clock, env, lock, Provider >>

\* get_tokens() called on its own
Load(c) ==
    /\ pc[c] = "load"
    /\ LET t == GetTokens(db)
       IN  Set(c, [frame[c] EXCEPT !.tokens = t, !.result = Return(t)])
    /\ Goto(c, "done")
    /\ UNCHANGED << clock, env, db, lock, Provider >>

\* get_valid_access_token, lines 83-90: tokens = self.get_tokens(), and the
\* bootstrap branch up to the refresh call
GVLoad(c) ==
    /\ pc[c] = "gv_load"
    /\ LET t == GetTokens(db)
       IN  IF t # None
           THEN /\ Set(c, [frame[c] EXCEPT !.tokens = t])
                /\ Goto(c, "gv_check")
           ELSE IF env = None
           THEN /\ Set(c, [frame[c] EXCEPT !.tokens = t, !.result = NoTokensError])
                /\ Goto(c, "done")
           ELSE /\ Set(c, [frame[c] EXCEPT !.tokens = t, !.sent = env[1]])
                /\ Goto(c, "refresh")
    /\ UNCHANGED << clock, env, db, lock, Provider >>

\* lines 101-106: the expiry check against time.time()
GVCheck(c) ==
    /\ pc[c] = "gv_check"
    /\ LET t == frame[c].tokens[1]
       IN  IF IsStillValid(t.expires_at, clock)
           THEN /\ Set(c, [frame[c] EXCEPT !.now = clock,
                              !.result = Return(t.access_token)])
                /\ Goto(c, "done")
           ELSE /\ Set(c, [frame[c] EXCEPT !.now = clock,
                              !.sent = t.refresh_token])
                /\ Goto(c, "refresh")
    /\ UNCHANGED << clock, env, db, lock, Provider >>

\* The answer x to the POST of caller c: the provider's part when it accepts
\* (the token sent is spent, the next pair issued), and lines 76-79 on the
\* caller's side (requests.post raising, the status check)
Answer(c, x) ==
    /\ IF x.accepted
       THEN /\ live' = (live \ { frame[c].sent }) \cup { RT(issued + 1) }
            /\ consumed' = consumed \cup { frame[c].sent }
            /\ issued' = issued + 1
       ELSE UNCHANGED Provider
    /\ LET f == [frame[c] EXCEPT !.calls = @ + 1,
                    !.resp = [status |-> x.status, body |-> x.body]]
       IN  IF x.status = -1
           THEN Set(c, [f EXCEPT !.result = TransportError]) /\ Goto(c, "done")
           ELSE IF StatusOk(x.status)
           THEN Set(c, f) /\ Goto(c, "save_args")
           ELSE Set(c, [f EXCEPT !.result = RefreshFailedError]) /\ Goto(c, "done")

\* refresh_access_token(refresh_token), lines 58-79: the POST, the
\* provider's part in it, and the status check
RefreshAccessToken(c) ==
    /\ pc[c] = "refresh"
    /\ \E x \in Exchanges(frame[c].sent) : Answer(c, x)
    /\ UNCHANGED << clock, env, db, lock >>

\* lines 94-98 and 107-111: the arguments of save_tokens, read off new_tokens
GVSaveArgs(c) ==
    /\ pc[c] = "save_args"
    /\ LET body == frame[c].resp.body
           miss == FirstMissing(body)
       IN  IF miss # None
           THEN /\ Set(c, [frame[c] EXCEPT !.result = KeyError(miss[1])])
                /\ Goto(c, "done")
           ELSE /\ Set(c, [frame[c] EXCEPT !.args =
                              [access_token |-> body["access_token"],
                               refresh_token |-> body["refresh_token"],
                               expires_in |-> body["expires_in"]]])
                /\ Goto(c, "save_time")
    /\ UNCHANGED << clock, env, db, lock, Provider >>

\* save_tokens line 31: expires_at = int(time.time()) + expires_in
SaveTime(c) ==
    /\ pc[c] = "save_time"
    /\ Set(c, [frame[c] EXCEPT !.tsave = clock,
                  !.expires_at = IntTime(clock) + frame[c].args.expires_in])
    /\ Goto(c, "save_delete")
    /\ UNCHANGED << clock, env, db, lock, Provider >>

\* lines 33-34: connect and DELETE FROM tokens, which opens the connection's
\* write transaction
SaveDelete(c) ==
    /\ pc[c] = "save_delete"
    /\ lock = "free"
    /\ lock' = c
    /\ LET w == DeleteAll(db)
       IN  /\ Set(c, [frame[c] EXCEPT !.txn = w])
           /\ db' = Isolation(db, w)
    /\ Goto(c, "save_insert")
    /\ UNCHANGED << clock, env, Provider >>

\* lines 35-38: the INSERT, in the same transaction
SaveInsert(c) ==
    /\ pc[c] = "save_insert"
    /\ LET a == frame[c].args
           w == InsertRow(frame[c].txn, a.refresh_token, a.access_token,
                          frame[c].expires_at)
       IN  /\ Set(c, [frame[c] EXCEPT !.txn = w])
           /\ db' = Isolation(db, w)
    /\ Goto(c, "save_commit")
    /\ UNCHANGED << clock, env, lock, Provider >>

\* lines 39-40: conn.commit() and conn.close()
SaveCommit(c) ==
    /\ pc[c] = "save_commit"
    /\ db' = frame[c].txn
    /\ lock' = "free"
    /\ Goto(c, "return")
    /\ UNCHANGED << clock, env, Provider, frame >>

\* sqlite3 raises in save_tokens (or the process is interrupted) before the
\* commit: the connection is dropped and its transaction rolled back
SaveFail(c) ==
    /\ pc[c] \in { "save_delete", "save_insert", "save_commit" }
    /\ lock \in { "free", c }
    /\ lock' = "free"
    /\ Set(c, [frame[c] EXCEPT !.txn = << >>, !.result = SqliteError])
    /\ Goto(c, "done")
    /\ UNCHANGED << clock, env, db, Provider >>

\* the return statement: lines 99 and 112 return new_tokens['access_token'],
\* save_tokens called on its own returns None
ReturnStmt(c) ==
    /\ pc[c] = "return"
    /\ Set(c, [frame[c] EXCEPT !.result =
                  IF frame[c].op = "get_valid"
                  THEN Return(frame[c].resp.body["access_token"])
                  ELSE Return(None)])
    /\ Goto(c, "done")
    /\ UNCHANGED << clock, env, db, lock, Provider >>

\* the caller has its result (or exception) and drops the call's frame
Finish(c) ==
    /\ pc[c] = "done"
    /\ Set(c, Frame0)
    /\ Goto(c, "idle")
    /\ UNCHANGED << clock, env, db, lock, Provider >>

\* the wall clock advances, at any point of a call
Tick ==
    /\ clock < MaxClock
    /\ clock' = clock + 1
    /\ UNCHANGED << env, db, lock, Provider, pc, frame >>

\* the steps of a call under way
Step(c) ==
    \/ Load(c)
    \/ GVLoad(c)
    \/ GVCheck(c)
    \/ RefreshAccessToken(c)
    \/ GVSaveArgs(c)
    \/ SaveTime(c)
    \/ SaveDelete(c)
    \/ SaveInsert(c)
    \/ SaveCommit(c)
    \/ SaveFail(c)
    \/ ReturnStmt(c)
    \/ Finish(c)

\* all the public methods, called one at a time
Next ==
    \/ \E c \in SerialCallers : Quiet /\ CallGetValid(c)
    \/ \E c \in SerialCallers : Quiet /\ CallSave(c)
    \/ \E c \in SerialCallers : Quiet /\ CallLoad(c)
    \/ \E c \in SerialCallers : Quiet /\ InitDb(c)
    \/ \E c \in SerialCallers : Step(c)
    \/ Tick

Spec == Init /\ [][Next]_vars

\* the cache used through get_valid_access_token() alone, one call at a time
StepGV(c) ==
    \/ GVLoad(c)
    \/ GVCheck(c)
    \/ RefreshAccessToken(c)
    \/ GVSaveArgs(c)
    \/ SaveTime(c)
    \/ SaveDelete(c)
    \/ SaveInsert(c)
    \/ SaveCommit(c)
    \/ SaveFail(c)
    \/ ReturnStmt(c)
    \/ Finish(c)

NextGV ==
    \/ \E c \in SerialCallers : Quiet /\ CallGetValid(c)
    \/ \E c \in SerialCallers : Quiet /\ InitDb(c)
    \/ \E c \in SerialCallers : StepGV(c)
    \/ Tick

SpecGV == Init /\ [][NextGV]_vars

\* ------------------------------------------------- concurrent callers
\* Several threads or processes call get_valid_access_token() on the same
\* database with nothing serializing them.  With exchanges of several
\* callers under way at once the POST of lines 64-74 is two steps: the
\* request reaches the provider, which looks the refresh token up, and the
\* answer comes back, the provider rotating the token as it issues the
\* next pair.  (With one exchange at a time the two steps are
\* RefreshAccessToken.)

\* the request of caller c reaches the provider
PostArrive(c) ==
    /\ pc[c] = "refresh"
    /\ Goto(c, IF frame[c].sent \in live THEN "posted_live" ELSE "posted_dead")
    /\ UNCHANGED << clock, env, db, lock, Provider, frame >>

\* the answers to a request whose token was found live (or not) on arrival
Answers(foundLive) ==
    { [status |-> 400, body |-> NoResp.body, accepted |-> FALSE],
      [status |-> -1, body |-> NoResp.body, accepted |-> FALSE] }
    \cup (IF foundLive /\ issued < MaxIssue
          THEN { [status |-> -1, body |-> NoResp.body, accepted |-> TRUE] }
               \cup { [status |-> HttpOk, body |-> b, accepted |-> TRUE] :
                        b \in OkBodies(issued + 1) }
          ELSE {})

\* the answer comes back to caller c: the rest of refresh_access_token
PostAnswer(c) ==
    /\ pc[c] \in { "posted_live", "posted_dead" }
    /\ \E x \in Answers(pc[c] = "posted_live") : Answer(c, x)
    /\ UNCHANGED << clock, env, db, lock >>

\* lines 33-34 while another connection holds the write transaction: SQLite
\* answers SQLITE_BUSY and, the timeout over, sqlite3 raises
\* OperationalError("database is locked")
SaveBusy(c) ==
    /\ pc[c] = "save_delete"
    /\ lock \notin { "free", c }
    /\ Set(c, [frame[c] EXCEPT !.result = SqliteError])
    /\ Goto(c, "done")
    /\ UNCHANGED << clock, env, db, lock, Provider >>

StepConc(c) ==
    \/ GVLoad(c)
    \/ GVCheck(c)
    \/ PostArrive(c)
    \/ PostAnswer(c)
    \/ GVSaveArgs(c)
    \/ SaveTime(c)
    \/ SaveDelete(c)
    \/ SaveInsert(c)
    \/ SaveCommit(c)
    \/ SaveFail(c)
    \/ SaveBusy(c)
    \/ ReturnStmt(c)
    \/ Finish(c)

\* (the clock advances between the rounds of calls: a race of two calls is
\* taken to last less than a tick)
NextConc ==
    \/ \E c \in Callers : CallGetValid(c)
    \/ \E c \in Callers : StepConc(c)
    \/ Quiet /\ Tick

\* the callers meet on a store that holds the record of a bootstrap whose
\* answer carried expires_in = 300: a record that is expiring from the start
InitConc ==
    /\ clock = 0
    /\ env = Some(BootstrapToken)
    /\ db = InsertRow(<< >>, RT(1), AT(1), IntTime(0) + Buffer)
    /\ lock = "free"
    /\ live = { RT(1) }
    /\ consumed = { BootstrapToken }
    /\ issued = 1
    /\ pc = [c \in Callers |-> "idle"]
    /\ frame = [c \in Callers |-> Frame0]

SpecConc == InitConc /\ [][NextConc]_vars

TypeOK ==
    /\ clock \in 0 .. MaxClock
    /\ issued \in 0 .. MaxIssue
    /\ lock \in Callers \cup { "free" }
    /\ live \subseteq RefreshTokens
    /\ consumed \subseteq RefreshTokens

\* ------------------------------------------------------------ the claims
GV(c) == frame[c].op = "get_valid"
Returned(c) == pc[c] = "done" /\ frame[c].result.kind = "return"
Raised(c) == pc[c] = "done" /\ frame[c].result.kind = "raise"
\* the expiry check of the call has read the clock and found a record
Checked(c) == GV(c) /\ frame[c].tokens # None /\ frame[c].now >= 0
\* the record the call under way asked save_tokens to write
NewRecord(c) ==
    [access_token |-> frame[c].args.access_token,
     refresh_token |-> frame[c].args.refresh_token,
     expires_at |-> frame[c].expires_at]

\* C1: a call that finds a record with expires_at > now + 300 returns the
\* stored access token, calls the OAuth client zero times and writes
\* nothing: the stored record is the one found.
C1_CachedTokenReturned ==
    \A c \in Callers :
        (Checked(c) /\ frame[c].tokens[1].expires_at * Res > frame[c].now + Buffer * Res)
        => /\ pc[c] = "done"
           /\ frame[c].result = Return(frame[c].tokens[1].access_token)
           /\ frame[c].calls = 0
           /\ db = frame[c].pre
           /\ GetTokens(db) = frame[c].tokens

C1_Witness ==
    \E c \in Callers :
        /\ Checked(c) /\ Returned(c)
        /\ frame[c].tokens[1].expires_at * Res > frame[c].now + Buffer * Res
        /\ frame[c].result.value = db[1].access_token

\* C2: a call that finds a record with expires_at <= now + 300 (the
\* boundary included) makes exactly one refresh call, with the stored
\* refresh token, and when it returns, returns the access token of the
\* response.
C2_ExpiringRecordRefreshed ==
    \A c \in Callers :
        (Checked(c) /\ frame[c].tokens[1].expires_at * Res <= frame[c].now + Buffer * Res)
        => /\ frame[c].sent = frame[c].tokens[1].refresh_token
           /\ frame[c].calls = (IF pc[c] = "refresh" THEN 0 ELSE 1)
           /\ pc[c] = "done" => /\ frame[c].result.kind \in { "return", "raise" }
                                /\ frame[c].result.kind = "return" =>
                                      /\ "access_token" \in DOMAIN frame[c].resp.body
                                      /\ frame[c].result.value = frame[c].resp.body["access_token"]

\* the boundary case: expires_at = now + 300, refreshed and returned
C2_Witness ==
    \E c \in Callers :
        /\ Checked(c) /\ Returned(c)
        /\ frame[c].tokens[1].expires_at * Res = frame[c].now + Buffer * Res
        /\ frame[c].calls = 1
        /\ frame[c].result.value # frame[c].tokens[1].access_token

\* a call on the refresh path (record found, not valid any more) has
\* returned a token
Refreshed(c) ==
    /\ Checked(c) /\ Returned(c)
    /\ frame[c].tokens[1].expires_at * Res <= frame[c].now + Buffer * Res

C4_BootstrapPersistsBeforeReturn ==
    \A c \in Callers :
        (GV(c) /\ pc[c] # "gv_load" /\ frame[c].tokens = None /\ env # None)
        => /\ frame[c].sent = env[1]
           /\ frame[c].sent = BootstrapToken
           /\ frame[c].calls = (IF pc[c] = "refresh" THEN 0 ELSE 1)
           /\ (pc[c] = "return" \/ Returned(c)) =>
                 /\ db = << [id |-> 1,
                             refresh_token |-> frame[c].resp.body["refresh_token"],
                             access_token |-> frame[c].resp.body["access_token"],
                             expires_at |-> (frame[c].tsave \div Res)
                                            + frame[c].resp.body["expires_in"]] >>
                 /\ Returned(c) => frame[c].result.value = GetTokens(db)[1].access_token

C4_Witness ==
    \E c \in Callers :
        /\ GV(c) /\ Returned(c) /\ frame[c].tokens = None
        /\ frame[c].pre = << >> /\ db # << >>
        /\ frame[c].result.value = db[1].access_token

\* the class of the exception a non-200 answer raises
UpstreamErrorClass == RefreshFailedError.cls

\* C5 as stated: with an empty store and no bootstrap refresh token the
\* call fails with an error of a kind other than the upstream failure's,
\* without a call to the OAuth client, and the store stays empty.
C5_ConfigurationErrorKind ==
    \A c \in Callers :
        (GV(c) /\ pc[c] # "gv_load" /\ frame[c].tokens = None /\ env = None)
        => /\ Raised(c)
           /\ frame[c].result.cls # UpstreamErrorClass
           /\ frame[c].calls = 0
           /\ db = << >>

\* C5 amended: the call fails with a plain Exception, the class an
\* upstream failure raises too, told apart by its message only; no call
\* to the OAuth client is made and the store stays empty.
C5_NoTokensException ==
    \A c \in Callers :
        (GV(c) /\ pc[c] # "gv_load" /\ frame[c].tokens = None /\ env = None)
        => /\ Raised(c)
           /\ frame[c].result.cls = "Exception"
           /\ frame[c].result.cls = UpstreamErrorClass
           /\ frame[c].result.msg = "No tokens in database and no BLUEBEAM_REFRESH_TOKEN in environment"
           /\ frame[c].result.msg # RefreshFailedError.msg
           /\ frame[c].calls = 0
           /\ frame[c].resp = NoResp
           /\ db = << >>

C5_Witness ==
    \E c \in Callers :
        /\ GV(c) /\ Raised(c) /\ frame[c].tokens = None /\ env = None
        /\ frame[c].calls = 0 /\ db = << >>

\* C6: a non-200 answer, on the bootstrap path as on the refresh path,
\* ends the call with the upstream failure (the exception of line 79) and
\* leaves the store as it was: absent stays absent, a record keeps its
\* three fields.
C6_UpstreamFailureLeavesStore ==
    \A c \in Callers :
        (GV(c) /\ frame[c].resp.status \notin { 0, -1, HttpOk })
        => /\ pc[c] = "done"
           /\ frame[c].result = RefreshFailedError
           /\ frame[c].calls = 1
           /\ db = frame[c].pre
           /\ GetTokens(db) = frame[c].tokens

\* the failure on the refresh path, the record kept
C6_Witness ==
    \E c \in Callers :
        /\ GV(c) /\ Raised(c) /\ frame[c].resp.status = 400
        /\ frame[c].tokens # None /\ db # << >>
        /\ db[1].refresh_token = frame[c].sent

\* C7: round trip of the store: right after a save (save_tokens has
\* committed), a load returns the record saved, equal in access_token,
\* refresh_token and expires_at, whatever the store held before.
C7_SaveLoadRoundTrip ==
    \A c \in Callers :
        pc[c] = "return" => GetTokens(db) = Some(NewRecord(c))

\* a save on its own over another record
C7_Witness ==
    \E c \in Callers :
        /\ pc[c] = "return" /\ frame[c].op = "save"
        /\ frame[c].pre # << >>
        /\ frame[c].pre[1].refresh_token # frame[c].args.refresh_token
        /\ frame[c].pre[1].access_token # frame[c].args.access_token
        /\ GetTokens(db)[1].refresh_token = frame[c].args.refresh_token

\* C8: the store holds at most one record in every reachable state, and a
\* save replaces the whole previous record: after it the table is the one
\* row written, none of its fields taken from the old record.
C8_AtMostOneRecord ==
    /\ Len(db) <= 1
    /\ \A c \in Callers :
          /\ Len(frame[c].txn) <= 1
          /\ pc[c] = "return" =>
                db = << [id |-> 1,
                         refresh_token |-> frame[c].args.refresh_token,
                         access_token |-> frame[c].args.access_token,
                         expires_at |-> frame[c].expires_at] >>

\* a save has replaced a record that differed in all three fields
C8_Witness ==
    \E c \in Callers :
        /\ pc[c] = "return" /\ frame[c].pre # << >> /\ Len(db) = 1
        /\ frame[c].pre[1].refresh_token # db[1].refresh_token
        /\ frame[c].pre[1].access_token # db[1].access_token
        /\ frame[c].pre[1].expires_at # db[1].expires_at

\* C9: a save is atomic for the readers: at every step of save_tokens,
\* and after a save that failed or was interrupted, a load returns the
\* complete old state (until the commit, and after a failure) or the
\* complete new record (from the commit on), never an empty store in place
\* of a record and never a mix.
C9_SaveAtomic ==
    \A c \in Callers :
        LET old == GetTokens(frame[c].pre)
            new == Some(NewRecord(c))
            seen == GetTokens(db)
        IN  /\ pc[c] \in { "save_time", "save_delete", "save_insert", "save_commit" }
                  => seen = old
            /\ (Raised(c) /\ frame[c].result = SqliteError) => seen = old
            /\ pc[c] = "return" => seen = new

\* the old record is still read between the DELETE and the INSERT
C9_Witness ==
    \E c \in Callers :
        /\ pc[c] = "save_insert" /\ frame[c].txn = << >>
        /\ frame[c].pre # << >> /\ lock = c
        /\ GetTokens(db) = GetTokens(frame[c].pre)

\* C10: after a get_valid_access_token() call has finished, with a token
\* or with an error, the refresh token in the store is not one the
\* provider has accepted in an exchange.
C10_NoConsumedTokenRetained ==
    \A c \in Callers :
        (GV(c) /\ pc[c] = "done" /\ db # << >>)
        => db[1].refresh_token \notin consumed

\* C11: once a record has been persisted the store is never absent again:
\* no step of get_valid_access_token, save_tokens, get_tokens or _init_db,
\* succeeding or failing, takes the table from a record to no record.
C11_RecordNeverDeleted ==
    [][db # << >> => db' # << >>]_vars

\* a save over an existing record has failed and the record is still there
C11_Witness ==
    \E c \in Callers :
        /\ Raised(c) /\ frame[c].result = SqliteError
        /\ frame[c].pre # << >> /\ db = frame[c].pre

\* C12: _init_db, run by every construction of a TokenManager, leaves the
\* stored record as it was, on an empty store and on one that holds a
\* record, however often it is run.
C12_InitDbKeepsRecord ==
    \A c \in Callers :
        (pc[c] = "done" /\ frame[c].op = "init")
        => /\ db = frame[c].pre
           /\ GetTokens(db) = GetTokens(frame[c].pre)
           /\ frame[c].result = Return(None)

\* a TokenManager constructed on a database that holds a record
C12_Witness ==
    \E c \in Callers :
        /\ pc[c] = "done" /\ frame[c].op = "init"
        /\ frame[c].pre # << >> /\ db # << >>

\* the row the call of c asked save_tokens to write
NewRow(c) ==
    [id |-> 1, refresh_token |-> frame[c].args.refresh_token,
     access_token |-> frame[c].args.access_token,
     expires_at |-> frame[c].expires_at]

\* c and d have both read the same record, both sent its refresh token and
\* both returned the token of their own exchange
Raced(c, d) ==
    /\ c # d
    /\ Checked(c) /\ Checked(d) /\ Returned(c) /\ Returned(d)
    /\ frame[c].tokens = frame[d].tokens
    /\ frame[c].calls = 1 /\ frame[d].calls = 1
    /\ frame[c].sent = frame[d].sent

\* C13: without serialization two callers can both read the same expiring
\* record and both exchange its refresh token; when both have returned, the
\* store is the whole record of the one that committed last, the record of
\* the other is overwritten, and the refresh token issued to that other one
\* is in no store (the outcome of no serial order: one of the two returned
\* an access token that is not the stored one).
C13_LastWriterWins ==
    \A c, d \in Callers :
        Raced(c, d)
        => /\ frame[c].sent = frame[c].tokens[1].refresh_token
           /\ frame[c].args.refresh_token # frame[d].args.refresh_token
           /\ db \in { << NewRow(c) >>, << NewRow(d) >> }
           /\ \/ frame[c].result.value # db[1].access_token
              \/ frame[d].result.value # db[1].access_token

\* the store ends with the pair issued first: the refresh token issued
\* last, to d, is lost
C13_Witness ==
    \E c, d \in Callers :
        /\ Raced(c, d)
        /\ db = << NewRow(c) >>
        /\ frame[c].args.refresh_token[2] < frame[d].args.refresh_token[2]
        /\ frame[d].args.refresh_token \in live
        /\ frame[d].args.refresh_token # db[1].refresh_token
        /\ frame[d].result.value # db[1].access_token

\* bootstrap material or a stored refresh token that the provider accepts
Usable ==
    \/ env # None /\ env[1] \in live
    \/ db # << >> /\ db[1].refresh_token \in live

\* the exchange caller c is about to make has an answer that lets the call
\* succeed
CanSucceed(c) ==
    \E x \in Exchanges(frame[c].sent) :
        x.status = HttpOk /\ DOMAIN x.body = FieldSet

\* C14 as stated: the slot has no terminal state: as long as bootstrap
\* material or a live refresh token is usable (and the provider still
\* issues), a call that comes to the exchange can succeed; no state with a
\* record is absorbing while usable bootstrap material is configured.
C14_NoTerminalState ==
    \A c \in Callers :
        (GV(c) /\ pc[c] = "refresh" /\ Usable /\ issued < MaxIssue)
        => CanSucceed(c)

\* C14 amended: a call sends the stored refresh token whenever a record is
\* present and the bootstrap token only when the store is empty; it can
\* succeed when that token is live, and when it is not, every answer is a
\* failure and the failing call leaves the store as it was: a record with
\* a dead refresh token is absorbing, usable bootstrap material or not.
C14_TerminalWhenStoredTokenDead ==
    \A c \in Callers :
        (GV(c) /\ frame[c].sent # None)
        => /\ frame[c].sent = (IF frame[c].pre = << >> THEN env[1]
                               ELSE frame[c].pre[1].refresh_token)
           /\ (pc[c] = "refresh" /\ frame[c].sent \in live /\ issued < MaxIssue)
                 => CanSucceed(c)
           /\ (pc[c] = "refresh" /\ frame[c].sent \notin live)
                 => \A x \in Exchanges(frame[c].sent) :
                       x.status # HttpOk /\ ~x.accepted
           /\ (Raised(c) /\ frame[c].resp.status = 400) => db = frame[c].pre

\* a record with a dead refresh token, the bootstrap token configured and
\* live: the call has failed upstream and the record is as before
C14_Witness ==
    \E c \in Callers :
        /\ GV(c) /\ Raised(c) /\ frame[c].resp.status = 400
        /\ db # << >> /\ db = frame[c].pre
        /\ frame[c].sent = db[1].refresh_token
        /\ db[1].refresh_token \notin live
        /\ env # None /\ env[1] \in live

\* C15: under get_valid_access_token() the store goes from absent to a
\* record only through the bootstrap path, and every other change of the
\* record goes through the refresh path: the writer of a record over an
\* existing one has sent the stored refresh token, and with a record
\* present the bootstrap token is never sent.
C15_BootstrapOnlyFromAbsent ==
    /\ [](\A c \in Callers :
            (GV(c) /\ frame[c].sent # None /\ frame[c].pre # << >>)
            => /\ frame[c].sent = frame[c].pre[1].refresh_token
               /\ frame[c].sent # BootstrapToken)
    /\ [][db' # db =>
         \E c \in Callers :
            /\ GV(c) /\ pc[c] = "save_commit" /\ pc'[c] = "return"
            /\ frame[c].calls = 1
            /\ db' = << NewRow(c) >>
            /\ IF db = << >>
               THEN /\ frame[c].tokens = None
                    /\ frame[c].sent = BootstrapToken
               ELSE /\ frame[c].tokens = GetTokens(db)
                    /\ frame[c].sent = db[1].refresh_token
                    /\ frame[c].sent # BootstrapToken]_vars

\* a record written over a record, by a call that sent the stored token
C15_Witness ==
    \E c \in Callers :
        /\ GV(c) /\ pc[c] = "return"
        /\ frame[c].pre # << >> /\ db # frame[c].pre
        /\ frame[c].sent = frame[c].pre[1].refresh_token
        /\ frame[c].sent # BootstrapToken

\* C16: no failure is retried or swallowed: a call makes at most one call
\* to the OAuth client, and when that call fails, with a non-200 answer or
\* in the transport, the call ends with that failure raised, returns no
\* access token, makes no second attempt and leaves the store unchanged.
C16_FailureSurfacedOnce ==
    \A c \in Callers :
        /\ frame[c].calls <= 1
        /\ (GV(c) /\ frame[c].resp.status \notin { 0, HttpOk })
           => /\ pc[c] = "done"
              /\ frame[c].result.kind = "raise"
              /\ frame[c].result = (IF frame[c].resp.status = -1
                                    THEN Raise("requests.RequestException", "transport")
                                    ELSE Raise("Exception", "Failed to refresh token"))
              /\ frame[c].result.value = None
              /\ frame[c].calls = 1
              /\ db = frame[c].pre

\* the transport has failed on the bootstrap path: the store is still empty
C16_Witness ==
    \E c \in Callers :
        /\ GV(c) /\ Raised(c) /\ frame[c].resp.status = -1
        /\ frame[c].sent = BootstrapToken /\ frame[c].calls = 1
        /\ db = << >>

\* the last time the call of c has read the clock: at the save when it has
\* saved, at the expiry check otherwise
LastRead(c) == IF frame[c].tsave >= 0 THEN frame[c].tsave ELSE frame[c].now

\* C17 as stated: after every successful get_valid_access_token(), on the
\* cached, the refresh and the bootstrap path, the stored record has more
\* than the 300 seconds of the buffer left: expires_at > now + 300.
C17_BufferLeftAtReturn ==
    \A c \in Callers :
        (GV(c) /\ Returned(c))
        => /\ Len(db) = 1
           /\ db[1].expires_at * Res > LastRead(c) + Buffer * Res

\* C17 amended: a token returned from the cache has more than 300 seconds
\* left at the expiry check; a token returned after an exchange is stored
\* with expires_at = int(t) + expires_in, t the time of the save, and is
\* returned without a check: it has more than 300 seconds left only when
\* the provider's expires_in is large enough, and 300 seconds or less
\* whenever expires_in <= 300.
C17_BufferOnlyOnCachedPath ==
    \A c \in Callers :
        (GV(c) /\ Returned(c))
        => /\ Len(db) = 1
           /\ frame[c].tsave < 0 =>
                 /\ frame[c].calls = 0
                 /\ db[1].expires_at * Res > frame[c].now + Buffer * Res
           /\ frame[c].tsave >= 0 =>
                 LET e == frame[c].resp.body["expires_in"]
                 IN  /\ frame[c].calls = 1
                     /\ db[1].expires_at * Res <= frame[c].tsave + e * Res
                     /\ db[1].expires_at * Res > frame[c].tsave - Res + e * Res
                     /\ e <= Buffer =>
                           db[1].expires_at * Res <= frame[c].tsave + Buffer * Res

\* a token returned after a refresh with 300 seconds or less left
C17_Witness ==
    \E c \in Callers :
        /\ Refreshed(c)
        /\ frame[c].resp.body["expires_in"] = Buffer
        /\ db[1].expires_at * Res <= frame[c].tsave + Buffer * Res
        /\ frame[c].result.value = db[1].access_token

\* C18: under serial access, on every successful return of
\* get_valid_access_token() the value returned is the access_token of the
\* record in the store, and the stored refresh_token is the one issued
\* with it: the stored pair comes from one answer of the provider.
C18_ReturnedTokenIsStoredPair ==
    \A c \in Callers :
        (GV(c) /\ Returned(c))
        => /\ Len(db) = 1
           /\ frame[c].result.value = db[1].access_token
           /\ \E k \in 1 .. MaxIssue :
                 /\ db[1].access_token = AT(k)
                 /\ db[1].refresh_token = RT(k)

\* a token returned from the cache, stored by an earlier call
C18_Witness ==
    \E c \in Callers :
        /\ GV(c) /\ Returned(c) /\ frame[c].calls = 0
        /\ frame[c].pre # << >> /\ db = frame[c].pre
        /\ frame[c].result.value = db[1].access_token
        /\ db[1].refresh_token[2] = db[1].access_token[2]
====
